---- MODULE Spec2Model ----
(***************************************************************************)
(* untar-stream: a streaming USTAR decoder.                                *)
(*                                                                         *)
(* The generations of the decoder are modelled side by side:               *)
(*   strategy "B"  the ReadSeeker decoder  (Untar/TarEntry with            *)
(*                 read(p) / discard() over reader.read + reader.seek)     *)
(*   strategy "A"  the chunk-iterator decoder (src/index.js, Untar/TarEntry*)
(*                 with getIterator() / discard() over reader.next())      *)
(*   strategy "T"  the earlier chunk-iterator decoder, which decodes the   *)
(*                 header fields with a TextDecoder (HeaderSpec only)      *)
(*                                                                         *)
(* Spec runs B and A on whole archives; HeaderSpec runs extract() of all   *)
(* three on single header blocks with varied fields.                       *)
(*                                                                         *)
(* Bytes are integers 0..255, byte arrays and strings are sequences of     *)
(* them (a string is the sequence of its char codes).  Source offsets are  *)
(* 0-based as in the code; sequences are 1-based.                          *)
(***************************************************************************)
EXTENDS Integers, Sequences, FiniteSets, TLC

VARIABLES strategy, arch, data, cursor, chunk, entries, current, last, calls,
          stale

vars == <<strategy, arch, data, cursor, chunk, entries, current, last, calls,
          stale>>

(***************************************************************************)
(* Program constants                                                       *)
(***************************************************************************)
RECORD_SIZE == 512

INITIAL_CHECKSUM == 8 * 32

SEEK_MODE_CURRENT == 1

\* The value JavaScript calls NaN; no header field can decode to this number.
NaN == 0 - 2147483647

\* the undefined value of a missing FILE_TYPES key
Undefined == "undefined"

Min(a, b) == IF a < b THEN a ELSE b

Max(a, b) == IF a > b THEN a ELSE b

\* The header layout of the ReadSeeker decoder: label "null" marks a field
\* that _parseHeader skips (checksum, magic, reserved).
USTAR_FIELDS ==
  << [label |-> "name",        length |-> 100],
     [label |-> "mode",        length |-> 8],
     [label |-> "uid",         length |-> 8],
     [label |-> "gid",         length |-> 8],
     [label |-> "size",        length |-> 12],
     [label |-> "mtime",       length |-> 12],
     [label |-> "null",        length |-> 8],
     [label |-> "type",        length |-> 1],
     [label |-> "linkName",    length |-> 100],
     [label |-> "null",        length |-> 8],
     [label |-> "owner",       length |-> 32],
     [label |-> "group",       length |-> 32],
     [label |-> "majorNumber", length |-> 8],
     [label |-> "minorNumber", length |-> 8],
     [label |-> "prefix",      length |-> 155],
     [label |-> "null",        length |-> 12] >>

\* The header layout of the chunk-iterator decoder: checksum and magic are
\* labelled fields of the parsed header.
USTAR_FIELDS_A ==
  [USTAR_FIELDS EXCEPT ![7].label = "checksum", ![10].label = "ustar"]

FILE_TYPES ==
  << "file", "link", "symlink", "character-device", "block-device",
     "directory", "fifo", "contiguous-file" >>

(***************************************************************************)
(* Typed-array and string primitives                                       *)
(***************************************************************************)
\* Uint8Array.prototype.subarray(begin, end): 0-based, end exclusive,
\* clamped to the array.
subarray(arr, begin, end) ==
  SubSeq(arr, begin + 1, Min(end, Len(arr)))

\* let block = new Uint8Array(n)
ZeroBytes(n) == [i \in 1..n |-> 0]

\* index of the first NUL of arr, Len(arr) + 1 when it has none
FirstNul(arr) ==
  IF \E i \in 1..Len(arr) : arr[i] = 0
  THEN CHOOSE i \in 1..Len(arr) : arr[i] = 0 /\ \A j \in 1..(i - 1) : arr[j] # 0
  ELSE Len(arr) + 1

decodeString(arr) == SubSeq(arr, 1, FirstNul(arr) - 1)

\* StrWhiteSpaceChar among the single-byte char codes
WhiteSpace == {9, 10, 11, 12, 13, 32, 160}

OctalDigits == 48..55

RECURSIVE OctalRun(_, _, _, _)
\* the value of the longest run of octal digits of str starting at index i;
\* NaN when the run is empty
OctalRun(str, i, acc, seen) ==
  IF i <= Len(str) /\ str[i] \in OctalDigits
  THEN OctalRun(str, i + 1, acc * 8 + (str[i] - 48), TRUE)
  ELSE IF seen THEN acc ELSE NaN

\* parseInt(str, 8): leading white space is skipped, one sign is accepted,
\* parsing stops at the first character that is no octal digit.
parseInt8(str) ==
  LET ws    == {i \in 1..Len(str) : \A j \in 1..i : str[j] \in WhiteSpace}
      s     == Cardinality(ws) + 1
      neg   == s <= Len(str) /\ str[s] = 45
      signd == s <= Len(str) /\ str[s] \in {43, 45}
      v     == OctalRun(str, IF signd THEN s + 1 ELSE s, 0, FALSE)
  IN  IF v = NaN THEN NaN ELSE IF neg THEN 0 - v ELSE v

decodeOctal(arr) ==
  LET res == decodeString(arr)
  IN  IF res # <<>> THEN parseInt8(res) ELSE 0

\* a !== b on numbers: NaN differs from everything, itself included
StrictNotEqual(a, b) == a = NaN \/ b = NaN \/ a # b

\* str.indexOf(pat) === 0
StartsWith(str, pat) ==
  Len(str) >= Len(pat) /\ SubSeq(str, 1, Len(pat)) = pat

\* the literal 'ustar'
USTAR == <<117, 115, 116, 97, 114>>

\* Math.ceil(size / RECORD_SIZE) * RECORD_SIZE
PaddedSize(size) ==
  IF size = NaN THEN NaN
  ELSE ((size + RECORD_SIZE - 1) \div RECORD_SIZE) * RECORD_SIZE

(***************************************************************************)
(* Untar._getChecksum, Untar._parseHeader, TarEntry._parseMetadata         *)
(***************************************************************************)
RECURSIVE ChecksumLoop(_, _, _)
\* what the loop of _getChecksum adds to sum for the indices lo..hi (0-based),
\* split in halves; the checksum field 148..155 is skipped
ChecksumLoop(block, lo, hi) ==
  IF lo > hi THEN 0
  ELSE IF lo = hi
       THEN (IF lo >= 148 /\ lo < 156 THEN 0 ELSE block[lo + 1])
       ELSE ChecksumLoop(block, lo, (lo + hi) \div 2)
              + ChecksumLoop(block, (lo + hi) \div 2 + 1, hi)

\* a checksum that leaves out the 12 reserved bytes at the end of the block
_getChecksum_Partial(block) ==
  IF Len(block) < 512 THEN NaN
  ELSE INITIAL_CHECKSUM + ChecksumLoop(block, 0, 499)

\* A block shorter than 512 bytes makes the loop add undefined, and the sum
\* is NaN from then on.
_getChecksum(block) ==
  IF Len(block) < 512 THEN NaN
  ELSE INITIAL_CHECKSUM + ChecksumLoop(block, 0, 511)

RECURSIVE FieldOffset(_, _)
\* the running `offset` of _parseHeader when it reaches field k
FieldOffset(fields, k) ==
  IF k = 1 THEN 0 ELSE FieldOffset(fields, k - 1) + fields[k - 1].length

FieldIndex(fields, label) ==
  CHOOSE k \in 1..Len(fields) : fields[k].label = label

Labels(fields) == {fields[k].label : k \in 1..Len(fields)} \ {"null"}

_parseHeader(block, fields) ==
  [l \in Labels(fields) |->
     LET k == FieldIndex(fields, l)
     IN  subarray(block, FieldOffset(fields, k),
                  FieldOffset(fields, k) + fields[k].length)]

\* FILE_TYPES[n]
FileType(n) == IF n \in 0..7 THEN FILE_TYPES[n + 1] ELSE Undefined

\* _parseMetadata that ignores the prefix field
_parseMetadata_NoPrefix(header) ==
  [ name        |-> decodeString(header.name),
    mode        |-> decodeOctal(header.mode),
    uid         |-> decodeOctal(header.uid),
    gid         |-> decodeOctal(header.gid),
    size        |-> decodeOctal(header.size),
    mtime       |-> decodeOctal(header.mtime),
    type        |-> FileType(decodeOctal(header.type)),
    linkName    |-> decodeString(header.linkName),
    owner       |-> decodeString(header.owner),
    group       |-> decodeString(header.group),
    majorNumber |-> decodeOctal(header.majorNumber),
    minorNumber |-> decodeOctal(header.minorNumber),
    entrySize   |-> PaddedSize(decodeOctal(header.size)) ]

\* header is the record of byte arrays _parseHeader returns
_parseMetadata(header) ==
  LET _prefix == decodeString(header.prefix)
      _name   == decodeString(header.name)
      size    == decodeOctal(header.size)
  IN  [ name        |-> IF Len(_prefix) > 0 THEN _prefix \o <<47>> \o _name
                        ELSE _name,
        mode        |-> decodeOctal(header.mode),
        uid         |-> decodeOctal(header.uid),
        gid         |-> decodeOctal(header.gid),
        size        |-> size,
        mtime       |-> decodeOctal(header.mtime),
        type        |-> FileType(decodeOctal(header.type)),
        linkName    |-> decodeString(header.linkName),
        owner       |-> decodeString(header.owner),
        group       |-> decodeString(header.group),
        majorNumber |-> decodeOctal(header.majorNumber),
        minorNumber |-> decodeOctal(header.minorNumber),
        entrySize   |-> PaddedSize(size) ]

(***************************************************************************)
(* The byte sources the decoder is run on.  An archive is a sequence of    *)
(* members; each member kind is laid out below as the bytes a tar writer   *)
(* (or a truncation, or a corruption) puts on the wire.                    *)
(***************************************************************************)
\* how many calls a caller makes on entries that are no longer current
MaxStale == 1

\* how many seeks the discard() calls on one entry may issue in total
MaxSeeks == 2

MemberKinds ==
  {"f0", "f300", "f513", "badsum", "v7", "zero", "zero400", "cutbody", "cuthdr"}

\* the buffer lengths p.byteLength a caller passes to read(p)
BufLens == {200, 512}

RECURSIVE ToOctal(_, _)
\* n as w octal digits, zero padded
ToOctal(n, w) ==
  IF w = 0 THEN <<>> ELSE ToOctal(n \div 8, w - 1) \o <<48 + (n % 8)>>

RECURSIVE SumRange(_, _, _)
\* bytes[lo] + ... + bytes[hi], split in halves
SumRange(bytes, lo, hi) ==
  IF lo > hi THEN 0
  ELSE IF lo = hi THEN bytes[lo]
  ELSE SumRange(bytes, lo, (lo + hi) \div 2)
         + SumRange(bytes, (lo + hi) \div 2 + 1, hi)

\* bytes[i] + ... + bytes[Len(bytes)]
SumBytes(bytes, i) == SumRange(bytes, i, Len(bytes))

RECURSIVE SumParts(_, _)
SumParts(parts, k) ==
  IF k > Len(parts) THEN 0
  ELSE SumBytes(parts[k][2], 1) + SumParts(parts, k + 1)

\* A block of n bytes: parts is a sequence of <<offset, bytes>>, every byte
\* outside the parts is NUL.
Layout(parts, n) ==
  [i \in 1..n |->
     IF \E k \in 1..Len(parts) :
          i > parts[k][1] /\ i <= parts[k][1] + Len(parts[k][2])
     THEN LET k == CHOOSE k \in 1..Len(parts) :
                     i > parts[k][1] /\ i <= parts[k][1] + Len(parts[k][2])
          IN  parts[k][2][i - parts[k][1]]
     ELSE 0]

\* the stored form of a checksum: six octal digits, NUL, space
ChkField(sum) == ToOctal(sum, 6) \o <<0, 32>>

\* "ustar\0" followed by the version "00"
UstarMagic == USTAR \o <<0, 48, 48>>

\* the fields of a ustar header of a regular file, without the checksum
HeaderParts(name, size, magic) ==
  << <<0, name>>,
     <<100, ToOctal(420, 7) \o <<0>> >>,
     <<108, ToOctal(1000, 7) \o <<0>> >>,
     <<116, ToOctal(1000, 7) \o <<0>> >>,
     <<124, ToOctal(size, 11) \o <<0>> >>,
     <<136, ToOctal(1234567, 11) \o <<0>> >>,
     <<156, <<48>> >>,
     <<257, magic>> >>

\* The checksum a tar writer stores: the sum of the 512 header bytes with the
\* checksum field taken as eight spaces.
WriterSum(parts) == 8 * 32 + SumParts(parts, 1)

\* a header block whose checksum field is off by `off`
Header(name, size, magic, off) ==
  Layout(Append(HeaderParts(name, size, magic),
                <<148, ChkField(WriterSum(HeaderParts(name, size, magic)) + off)>>),
         RECORD_SIZE)

\* body byte j of a member: never NUL
Body(n) == [j \in 1..n |-> 1 + (j % 250)]

\* member names are "a", "b", ... by position in the archive
NameAt(pos) == <<96 + pos>>

\* the size field of a member's header
MemberSize(kind) ==
  CASE kind = "f300" -> 300
    [] kind = "f513" -> 513
    [] kind = "cutbody" -> 512
    [] OTHER -> 0

\* the body bytes the archive holds for a member
MemberBody(kind) ==
  CASE kind = "f300" -> 300
    [] kind = "f513" -> 513
    [] kind = "cutbody" -> 100
    [] OTHER -> 0

\* the number of bytes of a member on the wire
MemberLen(kind) ==
  CASE kind \in {"f0", "f300", "f513"} -> RECORD_SIZE + PaddedSize(MemberSize(kind))
    [] kind = "cutbody" -> RECORD_SIZE + 100
    [] kind = "cuthdr" -> 200
    [] OTHER -> RECORD_SIZE

MemberHeader(kind, pos) ==
  CASE kind = "zero" -> ZeroBytes(RECORD_SIZE)
    [] kind = "zero400" ->
         Layout(<< <<148, ChkField(INITIAL_CHECKSUM)>> >>, RECORD_SIZE)
    [] OTHER ->
         Header(NameAt(pos), MemberSize(kind),
                IF kind = "v7" THEN <<>> ELSE UstarMagic,
                IF kind = "badsum" THEN 1 ELSE 0)

\* the bytes of a member: header, body, padding, cut to MemberLen
MemberBytes(kind, pos) ==
  SubSeq(MemberHeader(kind, pos) \o Body(MemberBody(kind))
           \o ZeroBytes(RECORD_SIZE),
         1, MemberLen(kind))

RECURSIVE ArchiveBytes(_, _)
ArchiveBytes(ms, pos) ==
  IF pos > Len(ms) THEN <<>>
  ELSE MemberBytes(ms[pos], pos) \o ArchiveBytes(ms, pos + 1)

RECURSIVE MemberStart(_, _)
\* offset at which member pos of archive ms starts
MemberStart(ms, pos) ==
  IF pos = 1 THEN 0 ELSE MemberStart(ms, pos - 1) + MemberLen(ms[pos - 1])

\* members that are whole files: header, body, padding
Files == {"f0", "f300", "f513"}

\* The archives: one member of any kind; a whole file followed by a member
\* of any kind; a terminator or a rejected header followed by a file.
Archives ==
  {<<k>> : k \in MemberKinds}
    \cup {<<f, k>> : f \in Files, k \in MemberKinds}
    \cup {<<k, "f0">> : k \in {"zero", "zero400", "badsum", "v7"}}

(***************************************************************************)
(* State                                                                   *)
(*   strategy  which decoder runs ("A" chunk iterator, "B" ReadSeeker)     *)
(*   arch      the members of the archive behind the byte source           *)
(*   data      its bytes (both fixed by Init)                              *)
(*   cursor    the position of the byte source                             *)
(*   chunk     B: Untar._chunk, the reused 512-byte header buffer;         *)
(*             A: the last block _getHeader got from reader.next()         *)
(*   entries   every TarEntry constructed so far, in order; a caller may   *)
(*             still hold any of them.  Fields of the code: the metadata,  *)
(*             entrySize, _read, _consumed.  History fields: hdrAt/hdrEnd  *)
(*             (source offsets of the entry's header block), got (sum of   *)
(*             what the source returned to this entry's reads), out (the   *)
(*             source ranges <<from, n>> handed to the caller), skipped    *)
(*             and skips (the bytes its discard() moved the source past,   *)
(*             and the number of source calls discard() made for that),    *)
(*             touched (a body operation was called on it by the caller),  *)
(*             passed (an extract() has read a header block after it)      *)
(*   current   Untar.entry as an index into entries, 0 for null            *)
(*   last      the last call: op and e (which call, on which entry), arg   *)
(*             (p.byteLength), rem (size - _read before it), from (the     *)
(*             cursor before it), res/err/n/magic (what it returned or     *)
(*             threw), prev (Untar.entry before an extract), hdrAt (where  *)
(*             the extract read its header block, Null if it read none),   *)
(*             first (that header read is the first one after entry prev)  *)
(*   calls     the calls the last operation made on the byte source        *)
(*   stale     how many calls were made on entries other than the current  *)
(***************************************************************************)
Null == 0 - 1

NoCall == [op |-> "none", e |-> 0, res |-> "none", err |-> "", n |-> 0,
           from |-> 0, arg |-> 0, rem |-> 0, prev |-> 0, hdrAt |-> Null,
           first |-> FALSE, magic |-> <<>>]

(***************************************************************************)
(* The byte source.  ReadSeeker.read(p) fills p from the cursor with the   *)
(* bytes that are left, at most p.byteLength of them, and returns their    *)
(* number, or null when none is left.  seek(offset, SEEK_MODE_CURRENT)     *)
(* moves the cursor by offset, also past the end of the data, where        *)
(* read(p) returns null.                                                   *)
(* The chunk iterator's next() returns the next 512 bytes, fewer at the    *)
(* end of the stream, and null after it.                                   *)
(***************************************************************************)
Avail(at) == Max(0, Len(data) - at)

SrcRead(at, len) == IF Avail(at) = 0 THEN Null ELSE Min(len, Avail(at))

\* the bytes read(p) stored: p[0..n-1] are new, the rest of p is untouched
Filled(p, at, n) ==
  [i \in 1..Len(p) |-> IF n # Null /\ i <= n THEN data[at + i] ELSE p[i]]

SeekTo(at, offset) == at + offset

\* the chunk reader.next() returns at position `at`; <<>> stands for null
NextChunk(at) == subarray(data, at, at + RECORD_SIZE)

ReadCall(at, len) ==
  [fn |-> "read", at |-> at, arg |-> len, ret |-> SrcRead(at, len)]

SeekCall(at, offset, to) ==
  [fn |-> "seek", at |-> at, arg |-> offset, ret |-> to]

NextCall(at) ==
  [fn |-> "next", at |-> at, arg |-> 0,
   ret |-> IF Avail(at) = 0 THEN Null ELSE Len(NextChunk(at))]

\* the history of source ranges handed to the caller, with the range
\* <<from, n>> added: a range that continues the last one extends it
AddOut(out, from, n) ==
  IF n = 0 THEN out
  ELSE IF out # <<>> /\ out[Len(out)][1] + out[Len(out)][2] = from
  THEN [out EXCEPT ![Len(out)] = <<@[1], @[2] + n>>]
  ELSE Append(out, <<from, n>>)

\* a call on entry i counts against MaxStale when i is not Untar.entry
Stale(i) ==
  IF i = current THEN stale' = stale
  ELSE stale < MaxStale /\ stale' = stale + 1

(***************************************************************************)
(* new TarEntry(header, reader)                                            *)
(***************************************************************************)
NewEntry(header, hdrAt, hdrEnd) ==
  [f \in DOMAIN _parseMetadata(header)
        \cup {"_read", "_consumed", "hdrAt", "hdrEnd", "got", "out",
              "skipped", "skips", "touched", "passed"} |->
     CASE f = "_read"     -> 0
       [] f = "_consumed" -> FALSE
       [] f = "hdrAt"     -> hdrAt
       [] f = "hdrEnd"    -> hdrEnd
       [] f = "got"       -> 0
       [] f = "out"       -> <<>>
       [] f = "skipped"   -> 0
       [] f = "skips"     -> 0
       [] f = "touched"   -> FALSE
       [] f = "passed"    -> FALSE
       [] OTHER           -> _parseMetadata(header)[f]]

(***************************************************************************)
(* Strategy B: the ReadSeeker decoder                                      *)
(***************************************************************************)
\* _getHeader that forgets to throw on a checksum mismatch
_getHeader_NoThrow(block) ==
  IF StrictNotEqual(parseInt8(decodeString(subarray(block, 148, 156))),
                    _getChecksum(block))
       /\ _getChecksum(block) = INITIAL_CHECKSUM
  THEN [kind |-> "null", err |-> "", magic |-> <<>>]
  ELSE IF ~StartsWith(decodeString(subarray(block, 257, 263)), USTAR)
       THEN [kind |-> "throw", err |-> "ReferenceError", magic |-> <<>>]
       ELSE [kind |-> "header", err |-> "", magic |-> <<>>]

\* _getHeader without the end-of-archive test
_getHeader_NoEnd(block) ==
  IF StrictNotEqual(parseInt8(decodeString(subarray(block, 148, 156))),
                    _getChecksum(block))
  THEN [kind |-> "throw", err |-> "Checksum error", magic |-> <<>>]
  ELSE IF ~StartsWith(decodeString(subarray(block, 257, 263)), USTAR)
       THEN [kind |-> "throw", err |-> "ReferenceError", magic |-> <<>>]
       ELSE [kind |-> "header", err |-> "", magic |-> <<>>]

\* Untar._getHeader after reader.read(chunk) returned a number: the checksum
\* test, the end-of-archive test and the magic test on the buffer.  The
\* template of the unsupported-format message names `magic`, which this
\* version of _getHeader never declares, so evaluating it throws a
\* ReferenceError before the Error is constructed.
_getHeader(block) ==
  LET blocksum == _getChecksum(block)
  IN  IF StrictNotEqual(parseInt8(decodeString(subarray(block, 148, 156))),
                        blocksum)
      THEN IF blocksum = INITIAL_CHECKSUM
           THEN [kind |-> "null", err |-> "", magic |-> <<>>]
           ELSE [kind |-> "throw", err |-> "Checksum error", magic |-> <<>>]
      ELSE IF ~StartsWith(decodeString(subarray(block, 257, 263)), USTAR)
           THEN [kind |-> "throw", err |-> "ReferenceError", magic |-> <<>>]
           ELSE [kind |-> "header", err |-> "", magic |-> <<>>]

\* discard() that skips the declared size instead of the padded size
DiscardDistance_Unpadded(e) ==
  LET remaining == e.size - e._read
  IN  IF remaining <= 0 THEN 0 ELSE remaining

\* TarEntry.discard: the distance it seeks, 0 when it returns early
DiscardDistance(e) ==
  LET remaining == e.entrySize - e._read
  IN  IF remaining <= 0 THEN 0 ELSE remaining

\* read(p) without the guard: the whole of p is handed to the source
ReadRequest_NoGuard(e, len) ==
  LET remaining == e.size - e._read
  IN  IF remaining <= 0 THEN 0 ELSE len

\* read(p) that asks the source even when the body is exhausted
ReadRequest_NoEnd(e, len) ==
  LET remaining == e.size - e._read
  IN  IF remaining >= len THEN len
      ELSE IF remaining > 0 THEN remaining
      ELSE len

\* TarEntry.read(p) with p.byteLength = len: how many bytes it asks the
\* source for, 0 when it returns null without asking
ReadRequest(e, len) ==
  LET remaining == e.size - e._read
  IN  IF remaining <= 0 THEN 0
      ELSE IF remaining >= len THEN len
      ELSE remaining

\* read(p) that always adds the buffer length to _read
ReadAdvance_Requested(e, len, n) ==
  LET remaining == e.size - e._read
  IN  IF remaining <= 0 THEN 0 ELSE len

\* TarEntry.read(p): what it adds to _read
ReadAdvance(e, len, n) ==
  LET remaining == e.size - e._read
  IN  IF remaining <= 0 THEN 0
      ELSE IF remaining >= len THEN len
      ELSE remaining

\* entry.read(p), called on any entry the caller holds
Read(i, len) ==
  /\ strategy = "B"
  /\ i \in 1..Len(entries)
  /\ len \in BufLens
  /\ LET e   == entries[i]
         req == ReadRequest(e, len)
         n   == IF req = 0 THEN Null ELSE SrcRead(cursor, req)
     IN  /\ cursor' = IF n = Null THEN cursor ELSE cursor + n
         /\ entries' = [entries EXCEPT ![i] =
              [e EXCEPT !._read = @ + ReadAdvance(e, len, n),
                        !.got = IF n = Null THEN @ ELSE @ + n,
                        !.out = IF n = Null THEN @ ELSE AddOut(@, cursor, n),
                        !.touched = TRUE]]
         /\ calls' = IF req = 0 THEN <<>> ELSE <<ReadCall(cursor, req)>>
         /\ last' = [NoCall EXCEPT !.op = "read", !.e = i, !.arg = len,
                       !.rem = e.size - e._read,
                       !.res = IF n = Null THEN "null" ELSE "bytes",
                       !.n = n, !.from = cursor]
  /\ Stale(i)
  /\ UNCHANGED <<strategy, arch, data, chunk, current>>

\* entry.discard(), called by the caller on any entry it holds
Discard(i) ==
  /\ strategy = "B"
  /\ i \in 1..Len(entries)
  /\ LET e == entries[i]
         d == DiscardDistance(e)
     IN  /\ (d > 0 => e.skips < MaxSeeks)
         /\ cursor' = SeekTo(cursor, d)
         /\ calls' = IF d = 0 THEN <<>>
                     ELSE <<SeekCall(cursor, d, SeekTo(cursor, d))>>
         /\ entries' = [entries EXCEPT ![i] =
              [e EXCEPT !.skipped = @ + d, !.touched = TRUE,
                        !.skips = IF d > 0 THEN @ + 1 ELSE @]]
         /\ last' = [NoCall EXCEPT !.op = "discard", !.e = i, !.res = "void",
                       !.n = d, !.from = cursor]
  /\ Stale(i)
  /\ UNCHANGED <<strategy, arch, data, chunk, current>>

\* untar.extract(): discard the current entry, read one header block into
\* _chunk, validate it, construct the entry
Extract ==
  /\ strategy = "B"
  /\ LET d == IF current = 0 THEN 0 ELSE DiscardDistance(entries[current])
     IN
     /\ (d > 0 => entries[current].skips < MaxSeeks)
     /\ LET c1     == SeekTo(cursor, d)
            seeks  == IF d = 0 THEN <<>> ELSE <<SeekCall(cursor, d, c1)>>
            n      == SrcRead(c1, RECORD_SIZE)
            block  == Filled(chunk, c1, n)
            c2     == IF n = Null THEN c1 ELSE c1 + n
            h      == IF n = Null
                      THEN [kind |-> "null", err |-> "", magic |-> <<>>]
                      ELSE _getHeader(block)
            es1    == IF current = 0 THEN entries
                      ELSE [entries EXCEPT ![current].skipped = @ + d,
                             ![current].skips = IF d > 0 THEN @ + 1 ELSE @,
                             ![current].passed = TRUE]
        IN  /\ cursor' = c2
            /\ chunk' = block
            /\ calls' = Append(seeks, ReadCall(c1, RECORD_SIZE))
            /\ IF h.kind = "header"
               THEN /\ entries' = Append(es1,
                         NewEntry(_parseHeader(block, USTAR_FIELDS), c1, c2))
                    /\ current' = Len(entries) + 1
               ELSE /\ entries' = es1
                    /\ current' = current
            /\ last' = [NoCall EXCEPT !.op = "extract", !.prev = current,
                          !.hdrAt = c1, !.n = n,
                          !.first = current # 0 /\ ~entries[current].passed,
                          !.e = IF h.kind = "header" THEN Len(entries) + 1 ELSE 0,
                          !.res = CASE h.kind = "header" -> "entry"
                                    [] h.kind = "null" -> "end"
                                    [] OTHER -> "throw",
                          !.err = h.err, !.magic = h.magic]
  /\ UNCHANGED <<strategy, arch, data, stale>>

(***************************************************************************)
(* Strategy A: the chunk-iterator decoder                                  *)
(***************************************************************************)
\* Untar._getHeader of the chunk-iterator decoder on a block that is not null
_getHeaderA(block) ==
  LET header   == _parseHeader(block, USTAR_FIELDS_A)
      blocksum == _getChecksum(block)
      magic    == decodeString(header.ustar)
      checksum == decodeString(header.checksum)
  IN  IF StrictNotEqual(parseInt8(checksum), blocksum)
      THEN IF blocksum = INITIAL_CHECKSUM
           THEN [kind |-> "null", err |-> "", magic |-> <<>>]
           ELSE [kind |-> "throw", err |-> "Checksum error", magic |-> <<>>]
      ELSE IF ~StartsWith(magic, USTAR)
           THEN [kind |-> "throw", err |-> "Unsupported archive format",
                 magic |-> magic]
           ELSE [kind |-> "header", err |-> "", magic |-> <<>>]

\* next() that hands out the whole chunk, padding included
IterNext_NoTruncate(e, at) ==
  LET values == NextChunk(at)
      length == Len(values)
  IN  IF e.entrySize - e._read <= 0
      THEN [e |-> [e EXCEPT !._consumed = TRUE], cur |-> at, res |-> "done",
            n |-> 0, calls |-> <<>>]
      ELSE IF Avail(at) = 0
      THEN [e |-> e, cur |-> at, res |-> "throw", n |-> 0,
            calls |-> <<NextCall(at)>>]
      ELSE IF e.size - e._read <= 0
      THEN [e |-> e, cur |-> at + length, res |-> "done", n |-> 0,
            calls |-> <<NextCall(at)>>]
      ELSE [e |-> [e EXCEPT !._read = @ + length, !.got = @ + length],
            cur |-> at + length, res |-> "chunk", n |-> length,
            calls |-> <<NextCall(at)>>]

\* One next() of the iterator getIterator() returns, on entry e with the
\* source at `at`.  `values.byteLength` is read before values is tested
\* for null, so the end of the source throws a TypeError.
IterNext(e, at) ==
  LET entryBytesLeft == e.entrySize - e._read
      bytesLeft      == e.size - e._read
      values         == NextChunk(at)
      length         == Len(values)
  IN  IF entryBytesLeft <= 0
      THEN [e |-> [e EXCEPT !._consumed = TRUE], cur |-> at, res |-> "done",
            n |-> 0, calls |-> <<>>]
      ELSE IF Avail(at) = 0
      THEN [e |-> e, cur |-> at, res |-> "throw", n |-> 0,
            calls |-> <<NextCall(at)>>]
      ELSE IF bytesLeft <= 0
      THEN [e |-> e, cur |-> at + length, res |-> "done", n |-> 0,
            calls |-> <<NextCall(at)>>]
      ELSE [e |-> [e EXCEPT !._read = @ + length, !.got = @ + length],
            cur |-> at + length, res |-> "chunk",
            n |-> IF bytesLeft < length THEN bytesLeft ELSE length,
            calls |-> <<NextCall(at)>>]

\* how many of the source calls cs returned a chunk
Chunks(cs) == Cardinality({k \in 1..Len(cs) : cs[k].ret # Null})

\* one turn of the loop of discard(): nothing once _consumed is set or
\* next() has thrown
DiscardTurn(st) ==
  IF st.res # "run" THEN st
  ELSE IF st.e._consumed THEN [st EXCEPT !.res = "void"]
  ELSE [e     |-> IterNext(st.e, st.cur).e,
        cur   |-> IterNext(st.e, st.cur).cur,
        res   |-> IF IterNext(st.e, st.cur).res = "throw" THEN "throw"
                  ELSE "run",
        calls |-> st.calls \o IterNext(st.e, st.cur).calls]

\* TarEntry.discard of the chunk-iterator decoder: next() until _consumed.
\* Every turn but the last takes a chunk from the source or throws, so the
\* loop ends within (number of chunks left) + 2 turns.
DiscardLoop(e, at, cs) ==
  LET turns == (Avail(at) \div RECORD_SIZE) + 3
      F[k \in 0..turns] ==
        IF k = 0 THEN [e |-> e, cur |-> at, res |-> "run", calls |-> cs]
        ELSE DiscardTurn(F[k - 1])
  IN  F[turns]

\* one pull of the entry's body sequence by the caller
Pull(i) ==
  /\ strategy = "A"
  /\ i \in 1..Len(entries)
  /\ LET r == IterNext(entries[i], cursor)
     IN  /\ cursor' = r.cur
         /\ entries' = [entries EXCEPT ![i] =
              [r.e EXCEPT !.touched = TRUE,
                          !.out = IF r.res = "chunk"
                                  THEN AddOut(@, cursor, r.n) ELSE @]]
         /\ calls' = r.calls
         /\ last' = [NoCall EXCEPT !.op = "pull", !.e = i, !.res = r.res,
                       !.rem = entries[i].size - entries[i]._read,
                       !.err = IF r.res = "throw" THEN "TypeError" ELSE "",
                       !.n = r.n, !.from = cursor]
  /\ Stale(i)
  /\ UNCHANGED <<strategy, arch, data, chunk, current>>

\* entry.discard() called by the caller
DiscardA(i) ==
  /\ strategy = "A"
  /\ i \in 1..Len(entries)
  /\ LET r == DiscardLoop(entries[i], cursor, <<>>)
     IN  /\ cursor' = r.cur
         /\ entries' = [entries EXCEPT ![i] =
              [r.e EXCEPT !.touched = TRUE,
                          !.skipped = @ + (r.cur - cursor),
                          !.skips = @ + Chunks(r.calls)]]
         /\ calls' = r.calls
         /\ last' = [NoCall EXCEPT !.op = "discard", !.e = i, !.res = r.res,
                       !.err = IF r.res = "throw" THEN "TypeError" ELSE "",
                       !.from = cursor]
  /\ Stale(i)
  /\ UNCHANGED <<strategy, arch, data, chunk, current>>

\* untar.extract() of the chunk-iterator decoder
ExtractA ==
  /\ strategy = "A"
  /\ LET auto == current # 0 /\ ~entries[current]._consumed
         r    == IF auto THEN DiscardLoop(entries[current], cursor, <<>>)
                 ELSE [e |-> 0, cur |-> cursor, res |-> "void", calls |-> <<>>]
         es0  == IF auto
                 THEN [entries EXCEPT ![current] =
                         [r.e EXCEPT !.skipped = @ + (r.cur - cursor),
                                     !.skips = @ + Chunks(r.calls)]]
                 ELSE entries
         es1  == IF current # 0 /\ r.res # "throw"
                 THEN [es0 EXCEPT ![current].passed = TRUE]
                 ELSE es0
         c1   == r.cur
         block == NextChunk(c1)
         c2   == c1 + Len(block)
         h    == IF Avail(c1) = 0
                 THEN [kind |-> "null", err |-> "", magic |-> <<>>]
                 ELSE _getHeaderA(block)
     IN  IF r.res = "throw"
         THEN /\ cursor' = c1
              /\ entries' = es1
              /\ calls' = r.calls
              /\ last' = [NoCall EXCEPT !.op = "extract", !.prev = current,
                            !.res = "throw", !.err = "TypeError"]
              /\ UNCHANGED <<chunk, current>>
         ELSE /\ cursor' = c2
              /\ chunk' = IF Avail(c1) = 0 THEN chunk ELSE block
              /\ calls' = Append(r.calls, NextCall(c1))
              /\ IF h.kind = "header"
                 THEN /\ entries' = Append(es1,
                           NewEntry(_parseHeader(block, USTAR_FIELDS_A), c1, c2))
                      /\ current' = Len(entries) + 1
                 ELSE /\ entries' = es1
                      /\ current' = current
              /\ last' = [NoCall EXCEPT !.op = "extract", !.prev = current,
                            !.hdrAt = c1,
                            !.first = current # 0 /\ ~entries[current].passed,
                            !.n = IF Avail(c1) = 0 THEN Null ELSE Len(block),
                            !.e = IF h.kind = "header" THEN Len(entries) + 1 ELSE 0,
                            !.res = CASE h.kind = "header" -> "entry"
                                      [] h.kind = "null" -> "end"
                                      [] OTHER -> "throw",
                            !.err = h.err, !.magic = h.magic]
  /\ UNCHANGED <<strategy, arch, data, stale>>

(***************************************************************************)
(* Specification                                                           *)
(***************************************************************************)
Init ==
  /\ strategy \in {"A", "B"}
  /\ arch \in Archives
  /\ data = ArchiveBytes(arch, 1)
  /\ cursor = 0
  /\ chunk = ZeroBytes(RECORD_SIZE)
  /\ entries = <<>>
  /\ current = 0
  /\ last = NoCall
  /\ calls = <<>>
  /\ stale = 0

Next ==
  \/ Extract
  \/ \E i \in 1..Len(entries), len \in BufLens : Read(i, len)
  \/ \E i \in 1..Len(entries) : Discard(i)
  \/ ExtractA
  \/ \E i \in 1..Len(entries) : Pull(i)
  \/ \E i \in 1..Len(entries) : DiscardA(i)

Spec == Init /\ [][Next]_vars

\* The size field of every entry the archives above produce is a number, so
\* the arithmetic on size, entrySize and _read never meets NaN.
TypeOK ==
  /\ strategy \in {"A", "B"}
  /\ cursor \in Nat
  /\ current \in 0..Len(entries)
  /\ \A i \in 1..Len(entries) :
       /\ entries[i].size \in Nat
       /\ entries[i].entrySize \in Nat
       /\ entries[i]._read \in Nat

(***************************************************************************)
(* Header decoding.  A second specification runs extract() on sources that *)
(* hold one header block, drawn from the inputs below: a ustar header in   *)
(* which one octal field, the type flag, or name and prefix are varied, or *)
(* in which one byte was changed after the checksum was stored.  arch      *)
(* holds the description of the header as its one member.                  *)
(***************************************************************************)
OctalFields ==
  {"mode", "uid", "gid", "size", "mtime", "majorNumber", "minorNumber"}

FieldLen(f) == USTAR_FIELDS[FieldIndex(USTAR_FIELDS, f)].length

FieldAt(f) == FieldOffset(USTAR_FIELDS, FieldIndex(USTAR_FIELDS, f))

\* how the text of an octal field is stored: digits and a NUL; nothing (the
\* field is all NUL); a NUL followed by digits; digits over the full width
TextKinds == {"digits", "nul", "nulfirst", "full"}

\* the number a tar writer stores in each octal field by default
DefaultValue(f) ==
  CASE f = "mode" -> 420
    [] f \in {"uid", "gid"} -> 1000
    [] f = "mtime" -> 1234567
    [] OTHER -> 0

\* the number stored in the varied field: 0644
VariedValue == 420

\* the type flags: '0', '5', '7', then '8', 'L', 'g', 'x', NUL and space
TypeFlags == {48, 53, 55, 56, 76, 103, 120, 0, 32}

\* "file.txt", "bin/tool", and a name that fills all 100 bytes
FileTxt == <<102, 105, 108, 101, 46, 116, 120, 116>>

BinTool == <<98, 105, 110, 47, 116, 111, 111, 108>>

LongName == [i \in 1..100 |-> 97 + (i % 26)]

\* "file.txt", a NUL, and bytes left over from a longer name
StaleName == FileTxt \o <<0>> \o BinTool

\* "usr/local"
UsrLocal == <<117, 115, 114, 47, 108, 111, 99, 97, 108>>

\* the offsets at which one byte is changed, and the values it is changed to
FlipAts == {0, 99, 100, 124, 147, 156, 157, 257, 262, 345, 500, 511}

FlipTos == {0, 49, 255}

DefaultInput ==
  [name |-> FileTxt, prefix |-> <<>>, field |-> "mode", kind |-> "digits",
   flag |-> 48, flipAt |-> 0 - 1, flipTo |-> 0]

\* the bytes stored in octal field f of input h
FieldText(h, f) ==
  LET v == IF h.field = f THEN VariedValue ELSE DefaultValue(f)
      k == IF h.field = f THEN h.kind ELSE "digits"
  IN  CASE k = "digits"   -> ToOctal(v, FieldLen(f) - 1) \o <<0>>
        [] k = "nul"      -> <<>>
        [] k = "nulfirst" -> <<0>> \o ToOctal(v, 3)
        [] OTHER          -> ToOctal(v, FieldLen(f))

\* the fields of the header of input h, without the checksum
InputParts(h) ==
  << <<FieldAt("name"), h.name>>,
     <<FieldAt("mode"), FieldText(h, "mode")>>,
     <<FieldAt("uid"), FieldText(h, "uid")>>,
     <<FieldAt("gid"), FieldText(h, "gid")>>,
     <<FieldAt("size"), FieldText(h, "size")>>,
     <<FieldAt("mtime"), FieldText(h, "mtime")>>,
     <<FieldAt("type"), <<h.flag>> >>,
     <<257, UstarMagic>>,
     <<FieldAt("majorNumber"), FieldText(h, "majorNumber")>>,
     <<FieldAt("minorNumber"), FieldText(h, "minorNumber")>>,
     <<FieldAt("prefix"), h.prefix>> >>

\* the header block of input h: the writer's block with its checksum, and
\* then the one changed byte
InputBlock(h) ==
  LET written == Layout(Append(InputParts(h),
                               <<148, ChkField(WriterSum(InputParts(h)))>>),
                        RECORD_SIZE)
  IN  IF h.flipAt < 0 THEN written
      ELSE [written EXCEPT ![h.flipAt + 1] = h.flipTo]

HeaderInputs ==
  {[DefaultInput EXCEPT !.field = f, !.kind = k] :
      f \in OctalFields, k \in TextKinds}
    \cup {[DefaultInput EXCEPT !.flag = g] : g \in TypeFlags}
    \cup {[DefaultInput EXCEPT !.name = n, !.prefix = p] :
            n \in {FileTxt, BinTool, LongName, StaleName},
            p \in {<<>>, UsrLocal}}
    \cup {h \in {[DefaultInput EXCEPT !.flipAt = a, !.flipTo = v] :
                    a \in FlipAts, v \in FlipTos} :
            InputBlock(DefaultInput)[h.flipAt + 1] # h.flipTo}

(***************************************************************************)
(* Strategy T: the earlier chunk-iterator decoder, which decodes header    *)
(* fields with a TextDecoder (second half of src/index.js).  Its extract,  *)
(* discard and next are the ones of strategy A.                            *)
(***************************************************************************)
\* decoder.decode(arr) of the UTF-8 TextDecoder: an ASCII byte is its own
\* character; a byte that cannot start a well-formed sequence becomes
\* U+FFFD.  The inputs hold no other byte above 127 than 255.
decode(arr) == [i \in 1..Len(arr) |-> IF arr[i] < 128 THEN arr[i] ELSE 65533]

\* trim(arr): the subarray before the first NUL
trim(arr) == subarray(arr, 0, FirstNul(arr) - 1)

_getHeaderT(block) ==
  LET header   == _parseHeader(block, USTAR_FIELDS_A)
      blocksum == _getChecksum(block)
      magic    == decode(header.ustar)
      checksum == decode(header.checksum)
  IN  IF StrictNotEqual(parseInt8(checksum), blocksum)
      THEN IF blocksum = INITIAL_CHECKSUM
           THEN [kind |-> "null", err |-> "", magic |-> <<>>]
           ELSE [kind |-> "throw", err |-> "Checksum error", magic |-> <<>>]
      ELSE IF ~StartsWith(magic, USTAR)
           THEN [kind |-> "throw", err |-> "Unsupported archive format",
                 magic |-> magic]
           ELSE [kind |-> "header", err |-> "", magic |-> <<>>]

\* _parseMetadata of the earlier decoder: parseInt on the decoded field
\* without the test for an empty text; owner and group are null when empty
_parseMetadataT(header) ==
  LET _prefix == trim(header.prefix)
      _owner  == trim(header.owner)
      _group  == trim(header.group)
      _name   == decode(trim(header.name))
      size    == parseInt8(decode(header.size))
  IN  [ name        |-> IF Len(_prefix) > 0 THEN decode(_prefix) \o <<47>> \o _name
                        ELSE _name,
        mode        |-> parseInt8(decode(header.mode)),
        uid         |-> parseInt8(decode(header.uid)),
        gid         |-> parseInt8(decode(header.gid)),
        size        |-> size,
        mtime       |-> parseInt8(decode(header.mtime)),
        type        |-> FileType(parseInt8(decode(header.type))),
        linkName    |-> decode(trim(header.linkName)),
        owner       |-> IF Len(_owner) > 0 THEN decode(_owner) ELSE <<Null>>,
        group       |-> IF Len(_group) > 0 THEN decode(_group) ELSE <<Null>>,
        majorNumber |-> parseInt8(decode(header.majorNumber)),
        minorNumber |-> parseInt8(decode(header.minorNumber)),
        entrySize   |-> PaddedSize(size) ]

\* new TarEntry(header, reader) of the earlier decoder
NewEntryT(header, hdrAt, hdrEnd) ==
  [f \in DOMAIN NewEntry(header, hdrAt, hdrEnd) |->
     IF f \in DOMAIN _parseMetadataT(header)
     THEN _parseMetadataT(header)[f]
     ELSE NewEntry(header, hdrAt, hdrEnd)[f]]

\* discard() on an entry whose size is NaN: every comparison with
\* entrySize - _read and size - _read is false, so each next() takes a chunk
\* and adds its length to _read, until the source ends and next() throws
DiscardNaN(e, at) ==
  LET n == (Avail(at) + RECORD_SIZE - 1) \div RECORD_SIZE
  IN  [e     |-> [e EXCEPT !._read = IF n > 0 THEN NaN ELSE @],
       cur   |-> Max(at, Len(data)),
       res   |-> "throw",
       calls |-> [k \in 1..(n + 1) |-> NextCall(at + (k - 1) * RECORD_SIZE)]]

\* untar.extract() of the earlier decoder
ExtractT ==
  /\ strategy = "T"
  /\ LET auto == current # 0 /\ ~entries[current]._consumed
         r    == IF ~auto
                 THEN [e |-> 0, cur |-> cursor, res |-> "void", calls |-> <<>>]
                 ELSE IF entries[current].size = NaN
                 THEN DiscardNaN(entries[current], cursor)
                 ELSE DiscardLoop(entries[current], cursor, <<>>)
         es0  == IF auto
                 THEN [entries EXCEPT ![current] =
                         [r.e EXCEPT !.skipped = @ + (r.cur - cursor),
                                     !.skips = @ + Chunks(r.calls)]]
                 ELSE entries
         es1  == IF current # 0 /\ r.res # "throw"
                 THEN [es0 EXCEPT ![current].passed = TRUE]
                 ELSE es0
         c1   == r.cur
         block == NextChunk(c1)
         c2   == c1 + Len(block)
         h    == IF Avail(c1) = 0
                 THEN [kind |-> "null", err |-> "", magic |-> <<>>]
                 ELSE _getHeaderT(block)
     IN  IF r.res = "throw"
         THEN /\ cursor' = c1
              /\ entries' = es1
              /\ calls' = r.calls
              /\ last' = [NoCall EXCEPT !.op = "extract", !.prev = current,
                            !.res = "throw", !.err = "TypeError"]
              /\ UNCHANGED <<chunk, current>>
         ELSE /\ cursor' = c2
              /\ chunk' = IF Avail(c1) = 0 THEN chunk ELSE block
              /\ calls' = Append(r.calls, NextCall(c1))
              /\ IF h.kind = "header"
                 THEN /\ entries' = Append(es1,
                           NewEntryT(_parseHeader(block, USTAR_FIELDS_A), c1, c2))
                      /\ current' = Len(entries) + 1
                 ELSE /\ entries' = es1
                      /\ current' = current
              /\ last' = [NoCall EXCEPT !.op = "extract", !.prev = current,
                            !.hdrAt = c1,
                            !.first = current # 0 /\ ~entries[current].passed,
                            !.n = IF Avail(c1) = 0 THEN Null ELSE Len(block),
                            !.e = IF h.kind = "header" THEN Len(entries) + 1 ELSE 0,
                            !.res = CASE h.kind = "header" -> "entry"
                                      [] h.kind = "null" -> "end"
                                      [] OTHER -> "throw",
                            !.err = h.err, !.magic = h.magic]
  /\ UNCHANGED <<strategy, arch, data, stale>>

HeaderInit ==
  /\ strategy \in {"A", "B", "T"}
  /\ arch \in {<<h>> : h \in HeaderInputs}
  /\ data = InputBlock(arch[1])
  /\ cursor = 0
  /\ chunk = ZeroBytes(RECORD_SIZE)
  /\ entries = <<>>
  /\ current = 0
  /\ last = NoCall
  /\ calls = <<>>
  /\ stale = 0

HeaderNext ==
  \/ Extract
  \/ ExtractA
  \/ ExtractT

HeaderSpec == HeaderInit /\ [][HeaderNext]_vars

(***************************************************************************)
(* Properties                                                              *)
(***************************************************************************)
\* no body operation was called on any entry: only extract() has run
NoBodyCall == \A i \in 1..Len(entries) : ~entries[i].touched

\* the first k members of the archive are whole files
AllFiles(k) == k <= Len(arch) /\ \A j \in 1..k : arch[j] \in Files

\* the source range of the first n bytes that follow offset `from`
Range(from, n) == IF n = 0 THEN <<>> ELSE << <<from, n>> >>

\* C1: the first header block extract() reads after an entry starts exactly
\* paddedSize bytes after the end of that entry's header, at a multiple of
\* 512, whatever body operations the caller performed on the entry.
C1_NextHeaderAtPaddedSize ==
  (last.op = "extract" /\ last.first) =>
     /\ last.hdrAt = entries[last.prev].hdrEnd + entries[last.prev].entrySize
     /\ last.hdrAt % RECORD_SIZE = 0

\* C1 restricted to the chunk-iterator decoder
C1_StrategyA == strategy = "A" => C1_NextHeaderAtPaddedSize

\* C2: when only extract() is called, the k-th entry returned carries the
\* metadata of the k-th file of the archive and was decoded from the block
\* at that file's header offset; nothing was handed out as body; and an
\* extract() that meets the header of a further whole file returns an entry.
C2_SkipSemantics ==
  NoBodyCall =>
    /\ \A k \in 1..Len(entries) :
         AllFiles(k) =>
           /\ entries[k].name = NameAt(k)
           /\ entries[k].size = MemberSize(arch[k])
           /\ entries[k].type = "file"
           /\ entries[k].hdrAt = MemberStart(arch, k)
           /\ entries[k].out = <<>>
    /\ (last.op = "extract" /\ last.res # "entry") =>
         ~AllFiles(Len(entries) + 1)

\* a second file was reached by extract() alone, past a body that was
\* never read
C2_Witness ==
  /\ strategy = "B"
  /\ NoBodyCall
  /\ Len(entries) = 2
  /\ AllFiles(2)
  /\ entries[1].size > 0
  /\ last.op = "extract" /\ last.res = "entry"
  /\ entries[2].name = NameAt(2)

\* C3: a read(p) with p.byteLength > size - _read > 0 makes one call on the
\* source, asking for exactly size - _read bytes, returns at most that
\* many and moves the cursor by no more; when the cursor stood at the
\* entry's unread body, it ends within the declared body.
C3_OverReadGuard ==
  (last.op = "read" /\ last.arg > last.rem /\ last.rem > 0) =>
     /\ Len(calls) = 1
     /\ calls[1].fn = "read" /\ calls[1].at = last.from
     /\ calls[1].arg = last.rem
     /\ (last.n # Null => last.n <= last.rem)
     /\ cursor - last.from <= last.rem
     /\ LET e == entries[last.e]
        IN  last.from = e.hdrEnd + (e.size - last.rem) =>
              cursor <= e.hdrEnd + e.size

\* a read with a buffer larger than what is left of the body returned
\* exactly what was left
C3_Witness ==
  /\ last.op = "read" /\ last.arg > last.rem /\ last.rem > 0
  /\ last.n = last.rem
  /\ cursor = entries[last.e].hdrEnd + entries[last.e].size

\* C4: a whole file that is the first member of the archive, drained
\* without any discard() in between (B: read() until _read reaches size,
\* where read() returns end; A: pulls until the sequence is done), has handed
\* the caller exactly the source range of its first `size` body bytes, in
\* order; and bytes read plus bytes discarded as padding (B: by the
\* discard() that follows the drain, the caller's or the one of extract();
\* A: inside the last chunk) are ceil(size/512)*512.
C4_FullDrain ==
  (Len(entries) >= 1 /\ arch[1] \in Files /\ stale = 0) =>
    LET e == entries[1]
    IN  /\ (strategy = "B" /\ e.skips = 0 /\ e._read >= e.size) =>
              /\ e.out = Range(e.hdrEnd, e.size)
              /\ e.got = e.size
        /\ (strategy = "B" /\ e.skips <= 1 /\ e._read >= e.size
              /\ last.op = "extract" /\ last.prev = 1 /\ last.first) =>
              /\ e.out = Range(e.hdrEnd, e.size)
              /\ e.got + e.skipped = e.entrySize
              /\ last.hdrAt = e.hdrEnd + e.entrySize
        /\ (strategy = "B" /\ e.skips <= 1 /\ e._read >= e.size
              /\ last.op = "discard" /\ last.e = 1 /\ ~e.passed) =>
              /\ e.out = Range(e.hdrEnd, e.size)
              /\ e.got + e.skipped = e.entrySize
              /\ cursor = e.hdrEnd + e.entrySize
        /\ (strategy = "A" /\ e.skips = 0 /\ e._consumed) =>
              /\ e.out = Range(e.hdrEnd, e.size)
              /\ e._read = e.entrySize
              /\ e.got = e.entrySize
        /\ (strategy = "A" /\ last.op = "pull" /\ last.e = 1
              /\ last.res = "done" /\ e.skips = 0 /\ ~e.passed) =>
              /\ e._consumed
              /\ cursor = e.hdrEnd + e.entrySize

\* a file longer than one block was drained by read() calls in the
\* ReadSeeker decoder and its padding was then skipped by extract()
C4_Witness ==
  /\ strategy = "B"
  /\ Len(entries) >= 1 /\ arch[1] = "f513" /\ stale = 0
  /\ entries[1].got = 513 /\ entries[1].skips = 1
  /\ entries[1].out = <<<<512, 513>>>>
  /\ last.op = "extract" /\ last.prev = 1

\* C5: in the ReadSeeker decoder a discard() (the caller's, or the one
\* extract() issues) leaves the entry with _read = entrySize, and all the
\* discard() calls on one entry together seek once only, by no more than
\* entrySize.
C5_DiscardIdempotent ==
  strategy = "B" =>
    /\ \A i \in 1..Len(entries) :
          entries[i].skips <= 1 /\ entries[i].skipped <= entries[i].entrySize
    /\ (last.op = "discard" =>
          entries[last.e]._read = entries[last.e].entrySize)
    /\ (last.op = "extract" /\ last.prev # 0 =>
          entries[last.prev]._read = entries[last.prev].entrySize)

\* C6: in the ReadSeeker decoder _read of every entry is the sum of the
\* byte counts the source returned to its read() calls.
C6_ReadAccounting ==
  strategy = "B" => \A i \in 1..Len(entries) : entries[i]._read = entries[i].got

RECURSIVE SpaceSumLoop(_, _, _)
\* the sum of block[lo..hi] (1-based) with the checksum field as spaces
SpaceSumLoop(block, lo, hi) ==
  IF lo > hi THEN 0
  ELSE IF lo = hi
       THEN (IF lo \in 149..156 THEN 32 ELSE block[lo])
       ELSE SpaceSumLoop(block, lo, (lo + hi) \div 2)
              + SpaceSumLoop(block, (lo + hi) \div 2 + 1, hi)

\* the sum of all 512 header bytes, the 8 checksum bytes counted as spaces
SpaceSum(block) == SpaceSumLoop(block, 1, 512)

\* extract() read a whole 512-byte block where it expected a header; the
\* block is in chunk
HeaderBlockRead == last.op = "extract" /\ last.hdrAt # Null /\ last.n # Null

\* C7: extract() returns an entry only if the octal value of bytes 148..155
\* of the block equals the sum of the block with those bytes as spaces; a
\* block where they differ and the sum is not 256 makes extract() throw
\* the checksum error and construct no entry.
C7_HeaderAcceptance ==
  /\ (last.op = "extract" /\ last.res = "entry") =>
        /\ Len(chunk) = 512
        /\ decodeOctal(subarray(chunk, 148, 156)) = SpaceSum(chunk)
  /\ (HeaderBlockRead /\ Len(chunk) = 512
        /\ decodeOctal(subarray(chunk, 148, 156)) # SpaceSum(chunk)
        /\ SpaceSum(chunk) # 256) =>
        /\ last.res = "throw" /\ last.err = "Checksum error"
        /\ last.e = 0

\* a block whose stored checksum differs from its sum was rejected
C7_Witness ==
  /\ HeaderBlockRead /\ Len(chunk) = 512
  /\ decodeOctal(subarray(chunk, 148, 156)) # SpaceSum(chunk)
  /\ SpaceSum(chunk) # 256
  /\ last.err = "Checksum error"

\* C8: extract() returns end-of-archive, and does not throw, when the source
\* has no data for the header read and when the block read is all zero
\* bytes; on the archive that is one all-zero block no call ever throws or
\* constructs an entry.
C8_CleanEnd ==
  /\ (last.op = "extract" /\ last.hdrAt # Null /\ last.n = Null) =>
        last.res = "end"
  /\ (HeaderBlockRead /\ chunk = ZeroBytes(RECORD_SIZE)) => last.res = "end"
  /\ arch = <<"zero">> =>
        entries = <<>> /\ last.res \in {"none", "end"}

\* the all-zero block of the one-block archive was read and reported as the
\* end, and so was the end of the source after it
C8_Witness ==
  /\ arch = <<"zero">>
  /\ last.op = "extract" /\ last.res = "end" /\ last.n = Null
  /\ cursor = RECORD_SIZE

\* C9: a block whose sum (checksum field as spaces) is 256 makes extract()
\* return end-of-archive, whatever its checksum field holds.
C9_TerminatorPrecedence ==
  (HeaderBlockRead /\ Len(chunk) = 512 /\ SpaceSum(chunk) = 256) =>
     last.res = "end"

\* C10: a block that passes the checksum test and whose magic does not
\* start with "ustar" makes extract() throw the unsupported-format error
\* carrying the decoded magic, and construct no entry.
C10_UnsupportedFormat ==
  (HeaderBlockRead /\ Len(chunk) = 512
     /\ decodeOctal(subarray(chunk, 148, 156)) = SpaceSum(chunk)
     /\ ~StartsWith(decodeString(subarray(chunk, 257, 265)), USTAR)) =>
     /\ last.res = "throw"
     /\ last.err = "Unsupported archive format"
     /\ last.magic = decodeString(subarray(chunk, 257, 265))
     /\ last.e = 0

\* C10 restricted to the chunk-iterator decoder
C10_StrategyA == strategy = "A" => C10_UnsupportedFormat

\* the source call number k of the last operation met the end of the source
MetEnd(k) == k <= Len(calls) /\ calls[k].ret = Null

\* C11: in the chunk-iterator decoder a pull that meets the end of the
\* source before entrySize bytes were consumed returns done, throws nothing
\* and sets _consumed; an extract() whose discard of a truncated body met
\* the end of the source returns end-of-archive.
C11_TruncatedBody ==
  strategy = "A" =>
    /\ (last.op = "pull" /\ MetEnd(1)) =>
          /\ last.res = "done" /\ last.err = ""
          /\ entries[last.e]._consumed
    /\ (last.op = "extract" /\ last.prev # 0 /\ last.hdrAt = Null) =>
          last.res = "end"

\* the last call was an extract() that threw a fatal header error
HeaderError ==
  /\ last.op = "extract" /\ last.res = "throw"
  /\ last.err \in {"Checksum error", "Unsupported archive format"}

\* C12: an extract() that threw the checksum error or the unsupported-format
\* error has read the rejected block and nothing after it, and the
\* extract() that follows it on the same reader returns no entry.
C12_NoRecovery ==
  [][HeaderError =>
       /\ cursor <= last.hdrAt + RECORD_SIZE
       /\ Len(calls) >= 1 /\ calls[Len(calls)].at = last.hdrAt
       /\ (last'.op = "extract" => last'.res # "entry")]_vars

\* C17: in the chunk-iterator decoder every discard() returns after finitely
\* many pulls and throws nothing; called on the reader's current entry
\* before any extract() passed it, it leaves the source exactly at the end
\* of the entry's padded body, not inside the next header.
C17_DiscardTerminates ==
  (strategy = "A" /\ last.op = "discard") =>
     /\ last.res = "void" /\ last.err = ""
     /\ entries[last.e]._consumed
     /\ (last.e = current /\ ~entries[last.e].passed /\ stale = 0) =>
           cursor = entries[last.e].hdrEnd + entries[last.e].entrySize

\* C18: a pull made with entrySize - _read <= 0 (chunk-iterator decoder) and
\* a read(p) made with size - _read <= 0 (ReadSeeker decoder) return
\* done / null, make no call on the source, and leave the cursor and _read
\* as they were.  last.rem is size - _read before the call.
C18_ExhaustedFrame ==
  /\ (last.op = "pull"
        /\ entries[last.e].entrySize - (entries[last.e].size - last.rem) <= 0) =>
        /\ last.res = "done"
        /\ calls = <<>>
        /\ cursor = last.from
        /\ entries[last.e]._read = entries[last.e].size - last.rem
  /\ (last.op = "read" /\ last.rem <= 0) =>
        /\ last.res = "null"
        /\ calls = <<>>
        /\ cursor = last.from
        /\ entries[last.e]._read = entries[last.e].size - last.rem

\* a read(p) on an entry whose 513 body bytes were all read returned null
\* while the source still held the entry's padding
C18_Witness ==
  /\ strategy = "B"
  /\ last.op = "read" /\ last.rem <= 0 /\ last.res = "null"
  /\ entries[last.e].size = 513
  /\ cursor = entries[last.e].hdrEnd + 513
  /\ Avail(cursor) > 0

\* C19: a read(), pull or discard() on an entry after extract() has
\* returned a later entry returns end / does nothing, makes no call on the
\* source and leaves the cursor where it was.
C19_StaleHandles ==
  (last.op \in {"read", "pull", "discard"} /\ last.e < Len(entries)) =>
     /\ last.res \in {"null", "done", "void"}
     /\ calls = <<>>
     /\ cursor = last.from

\* C19 restricted to the chunk-iterator decoder
C19_StrategyA == strategy = "A" => C19_StaleHandles

\* C20: the extract() that follows an extract() which returned
\* end-of-archive returns end-of-archive too, constructs no entry and
\* issues no seek.
C20_EndAbsorbing ==
  [][(last.op = "extract" /\ last.res = "end" /\ last'.op = "extract") =>
       /\ last'.res = "end"
       /\ Len(entries') = Len(entries)
       /\ \A k \in 1..Len(calls') : calls'[k].fn # "seek"]_vars

\* the last call was the extract() that read the block at offset 0
FirstExtract == last.op = "extract" /\ last.hdrAt = 0

\* C13: the header as written is accepted; with one byte outside the
\* checksum field changed to a different value, extract() throws the
\* checksum error and no entry is ever constructed from the block.
C13_ChecksumSensitivity ==
  /\ (arch[1] = DefaultInput /\ FirstExtract) => last.res = "entry"
  /\ arch[1].flipAt >= 0 =>
        /\ ~(arch[1].flipAt \in 148..155)
        /\ InputBlock(DefaultInput)[arch[1].flipAt + 1] # data[arch[1].flipAt + 1]
        /\ entries = <<>>
        /\ FirstExtract => last.res = "throw" /\ last.err = "Checksum error"

\* the header with its last byte changed from NUL to 255 was rejected
C13_Witness ==
  /\ arch[1].flipAt = 511 /\ arch[1].flipTo = 255
  /\ data[512] = 255
  /\ FirstExtract /\ last.err = "Checksum error"

\* the eight known kinds
KnownKinds == {FILE_TYPES[k] : k \in 1..Len(FILE_TYPES)}

\* C14: a header whose type flag is none of the digits '0'..'7' is accepted
\* by extract(), and the entry's type is a value that is none of the eight
\* known kinds and not the bare undefined (which carries no flag).
C14_UnknownKind ==
  (FirstExtract /\ arch[1].flipAt < 0 /\ ~(arch[1].flag \in 48..55)) =>
     /\ last.res = "entry"
     /\ ~(entries[1].type \in KnownKinds)
     /\ entries[1].type # Undefined

\* the number the octal field f of input h denotes: the base-8 value of its
\* text up to the first NUL, 0 when that text is empty
Denoted(h, f) ==
  IF h.field = f
  THEN (IF h.kind \in {"nul", "nulfirst"} THEN 0 ELSE VariedValue)
  ELSE DefaultValue(f)

\* C15: every octal field of an accepted header decodes to the base-8 value
\* of its text up to the first NUL ("0000644\0" to 420), and to 0, not NaN,
\* when the field is all NUL or starts with NUL.
C15_OctalDecoding ==
  (FirstExtract /\ last.res = "entry") =>
     \A f \in OctalFields :
        /\ entries[1][f] # NaN
        /\ entries[1][f] = Denoted(arch[1], f)

\* C15 restricted to the two current decoders, which decode with decodeOctal
C15_CurrentDecoders == strategy \in {"A", "B"} => C15_OctalDecoding

\* the text of the name field of input h up to its first NUL
NameText(h) == IF h.name = StaleName THEN FileTxt ELSE h.name

\* C16: the name of the entry of an accepted header is prefix, "/" and name
\* when the prefix field is not empty, and the name field's text alone
\* otherwise, each taken up to its first NUL.
C16_NameComposition ==
  (FirstExtract /\ last.res = "entry") =>
     entries[1].name =
        IF arch[1].prefix # <<>>
        THEN arch[1].prefix \o <<47>> \o NameText(arch[1])
        ELSE NameText(arch[1])

\* prefix "usr/local" and name "bin/tool" gave "usr/local/bin/tool"
C16_Witness ==
  /\ arch[1].prefix = UsrLocal /\ arch[1].name = BinTool
  /\ FirstExtract /\ last.res = "entry"
  /\ entries[1].name = <<117, 115, 114, 47, 108, 111, 99, 97, 108, 47,
                         98, 105, 110, 47, 116, 111, 111, 108>>

\* C21: in the ReadSeeker decoder every entry extract() returns was decoded
\* from a header read for which the source delivered all 512 bytes; a header
\* read that delivered fewer bytes, the rest of _chunk being left over from
\* an earlier header, returns no entry.
C21_FreshHeaderBytes ==
  (strategy = "B" /\ last.op = "extract" /\ last.res = "entry") =>
     /\ last.n = RECORD_SIZE
     /\ chunk = subarray(data, last.hdrAt, last.hdrAt + RECORD_SIZE)

\* C22: after every step, every entry has 0 <= _read <= entrySize, and its
\* _read is not below what it was before the step; in the ReadSeeker decoder
\* _read is never above size; in the chunk-iterator decoder _consumed is set
\* only with _read = entrySize or with the source exhausted.
C22_ReadBounds ==
  [][\A i \in 1..Len(entries') :
       /\ entries'[i]._read >= 0
       /\ entries'[i]._read <= entries'[i].entrySize
       /\ (i <= Len(entries) => entries'[i]._read >= entries[i]._read)
       /\ (strategy = "B" => entries'[i]._read <= entries'[i].size)
       /\ (strategy = "A" /\ entries'[i]._consumed =>
             \/ entries'[i]._read = entries'[i].entrySize
             \/ Avail(cursor') = 0)]_vars

\* a read(p) with a buffer larger than what was left raised _read of a
\* 300-byte entry exactly to its size
C22_Witness ==
  /\ strategy = "B"
  /\ last.op = "read" /\ last.rem > 0 /\ last.arg > last.rem
  /\ entries[last.e].size = 300
  /\ entries[last.e]._read = 300

====
